---- MODULE Spec2Model ----
(***************************************************************************)
(* A model of jsonfile.py: a JSON file on disk kept in sync with a tree of *)
(* Python objects.  JSONFileRoot owns `_data`; JSONFileObject and          *)
(* JSONFileArray are proxies that hold a reference to a dict or a list of  *)
(* that tree and to the root, mutate the referenced container and then     *)
(* call the root's save() when autosave is on.                             *)
(*                                                                         *)
(* Python containers are objects with identity, so the tree lives in a     *)
(* heap of cells; a proxy is a reference to a cell.  Values that cross the *)
(* API (arguments, file text) are plain nested values.                     *)
(***************************************************************************)
EXTENDS Integers, Sequences, FiniteSets, TLC

\* ---------------------------------------------------------------- bounds
MaxLen == 2     \* entries a container of the tree may grow to
MaxObj == 4     \* containers alive at the same time
MaxOps == 2     \* calls after the constructor, reads apart

\* ---------------------------------------------------------------- values
\* A value is a record [t, n, s, c]: t the Python type, n the payload of a
\* number, a bool (1, 0) or a reference, s the payload of a string, c the
\* entries of a container.  An entry is [key, val]; the entries of a list
\* carry NoKey, those of a dict their key, in insertion order.
Scalar(t, n, s) == [t |-> t, n |-> n, s |-> s, c |-> <<>>]
Null      == Scalar("null", 0, "")            \* None
Absent    == Scalar("absent", 0, "")          \* Ellipsis, the no-data marker
Num(n)    == Scalar("num", n, "")
Str(s)    == Scalar("str", 0, s)
Bool(b)   == Scalar("bool", IF b THEN 1 ELSE 0, "")
Ref(i)    == Scalar("ref", i, "")             \* reference to a heap cell

\* A dict key is an int or a str.
IntK(n)   == [k |-> "int", n |-> n, s |-> ""]
StrK(s)   == [k |-> "str", n |-> 0, s |-> s]
NoKey     == [k |-> "none", n |-> 0, s |-> ""]

Entry(key, val) == [key |-> key, val |-> val]

\* a list of the given values
Arr(vals) == [t |-> "arr", n |-> 0, s |-> "", c |-> [i \in 1..Len(vals) |-> Entry(NoKey, vals[i])]]

\* a dict of the given <<key, value>> pairs
Obj(pairs) == [t |-> "obj", n |-> 0, s |-> "", c |-> [i \in 1..Len(pairs) |-> Entry(pairs[i][1], pairs[i][2])]]

Container(t, entries) == [t |-> t, n |-> 0, s |-> "", c |-> entries]

IsContainer(x) == x.t \in {"arr", "obj"}

\* The strings of the model in lexicographic order, and the decimal form of
\* the model's integers.
StrOrder == <<"1", "2", "a", "b">>

StrRank(s) == CHOOSE i \in 1..Len(StrOrder) : StrOrder[i] = s

IntToStr(n) == IF n = 1 THEN "1" ELSE "2"

\* str(key)
KeyStr(key) == IF key.k = "int" THEN StrK(IntToStr(key.n)) ELSE key

\* ------------------------------------------------------- dict primitives
RECURSIVE DictIndex(_, _, _)
\* position of key in the entries from position i on, 0 when missing
DictIndex(entries, key, i) ==
    IF i > Len(entries) THEN 0
    ELSE IF entries[i].key = key THEN i
    ELSE DictIndex(entries, key, i + 1)

DictHas(entries, key) == DictIndex(entries, key, 1) # 0

DictGet(entries, key) == entries[DictIndex(entries, key, 1)].val

\* dict.__setitem__: an existing key keeps its position, a new one goes last
DictSet(entries, key, val) ==
    IF DictHas(entries, key)
    THEN [entries EXCEPT ![DictIndex(entries, key, 1)] = Entry(key, val)]
    ELSE Append(entries, Entry(key, val))

SeqRemove(s, i) == SubSeq(s, 1, i - 1) \o SubSeq(s, i + 1, Len(s))

SeqInsert(s, i, x) == SubSeq(s, 1, i - 1) \o <<x>> \o SubSeq(s, i, Len(s))

RECURSIVE DictUpdate(_, _, _)
\* dict.update(other): setitem for each entry of other in order
DictUpdate(entries, other, i) ==
    IF i > Len(other) THEN entries
    ELSE DictUpdate(DictSet(entries, other[i].key, other[i].val), other, i + 1)

\* ------------------------------------------------------------ _inputvalue
RECURSIVE InputValue(_)
RECURSIVE InputItems(_, _, _)
RECURSIVE InputPairs(_, _, _)
InputItems(s, i, acc) ==
    IF i > Len(s) THEN acc
    ELSE InputItems(s, i + 1, Append(acc, Entry(NoKey, InputValue(s[i].val))))

\* the dict comprehension {str(k): _inputvalue(v) ...}: a later pair whose
\* key has the same string form overwrites the earlier one
InputPairs(s, i, acc) ==
    IF i > Len(s) THEN acc
    ELSE InputPairs(s, i + 1, DictSet(acc, KeyStr(s[i].key), InputValue(s[i].val)))

InputValue(value) ==
    IF value.t = "obj" THEN Container("obj", InputPairs(value.c, 1, <<>>))
    ELSE IF value.t = "str" THEN value
    ELSE IF value.t = "arr" THEN Container("arr", InputItems(value.c, 1, <<>>))
    ELSE value

\* ------------------------------------------------------------ json.dumps
\* A text is a sequence of tokens [k, n, s].
Punct(c)  == [k |-> "p", n |-> 0, s |-> c]
TNull     == [k |-> "null", n |-> 0, s |-> ""]
TNum(n)   == [k |-> "num", n |-> n, s |-> ""]
TStr(s)   == [k |-> "str", n |-> 0, s |-> s]
TBool(n)  == [k |-> "bool", n |-> n, s |-> ""]

RECURSIVE Dumpable(_)
\* json.dumps raises TypeError for an object it cannot encode (Ellipsis) and
\* when sort_keys has to order an int key against a str key.
Dumpable(x) ==
    CASE x.t = "absent" -> FALSE
      [] x.t = "arr" -> \A i \in 1..Len(x.c) : Dumpable(x.c[i].val)
      [] x.t = "obj" -> /\ \A i \in 1..Len(x.c) : Dumpable(x.c[i].val)
                        /\ \A i, j \in 1..Len(x.c) : x.c[i].key.k = x.c[j].key.k
      [] OTHER -> TRUE

\* order of two keys of the same type, as sorted() orders them
KeyLess(a, b) ==
    IF a.k = "int" THEN a.n < b.n ELSE StrRank(a.s) < StrRank(b.s)

RECURSIVE SortPairs(_)
\* sorted(dct.items()) for keys of one type (selection of the least key)
SortPairs(entries) ==
    IF entries = <<>> THEN <<>>
    ELSE LET m == CHOOSE i \in 1..Len(entries) :
                     \A j \in 1..Len(entries) : j = i \/ KeyLess(entries[i].key, entries[j].key)
         IN  <<entries[m]>> \o SortPairs(SeqRemove(entries, m))

RECURSIVE Dumps(_)
RECURSIVE DumpItems(_, _)
RECURSIVE DumpPairs(_, _)
\* DumpItems that loses the last item of a list of several
DumpItems_Short(s, i) ==
    IF i > Len(s) \/ (i = Len(s) /\ i > 1) THEN <<>>
    ELSE (IF i > 1 THEN <<Punct(",")>> ELSE <<>>) \o Dumps(s[i].val) \o DumpItems(s, i + 1)

DumpItems(s, i) ==
    IF i > Len(s) THEN <<>>
    ELSE (IF i > 1 THEN <<Punct(",")>> ELSE <<>>) \o Dumps(s[i].val) \o DumpItems(s, i + 1)

\* an int key is written as the string of its decimal form
DumpPairs(s, i) ==
    IF i > Len(s) THEN <<>>
    ELSE (IF i > 1 THEN <<Punct(",")>> ELSE <<>>)
         \o <<TStr(KeyStr(s[i].key).s), Punct(":")>> \o Dumps(s[i].val) \o DumpPairs(s, i + 1)

Dumps(x) ==
    CASE x.t = "null" -> <<TNull>>
      [] x.t = "num"  -> <<TNum(x.n)>>
      [] x.t = "str"  -> <<TStr(x.s)>>
      [] x.t = "bool" -> <<TBool(x.n)>>
      [] x.t = "arr"  -> <<Punct("[")>> \o DumpItems(x.c, 1) \o <<Punct("]")>>
      [] x.t = "obj"  -> <<Punct("{")>> \o DumpPairs(SortPairs(x.c), 1) \o <<Punct("}")>>

\* ------------------------------------------------------------- json.load
\* A parse result is [ok, val, next]: next is the position after the value.
PFail == [ok |-> FALSE, val |-> Null, next |-> 0]

PDone(val, next) == [ok |-> TRUE, val |-> val, next |-> next]

IsTok(toks, i, tok) == i <= Len(toks) /\ toks[i] = tok

RECURSIVE ParseValue(_, _)
RECURSIVE ParseItems(_, _, _)
RECURSIVE ParsePairs(_, _, _)
\* after '[' or ',' : a value, then ',' or ']'
ParseItems(toks, i, acc) ==
    LET r == ParseValue(toks, i)
        a == Append(acc, Entry(NoKey, r.val))
    IN  IF ~r.ok THEN PFail
        ELSE IF IsTok(toks, r.next, Punct(",")) THEN ParseItems(toks, r.next + 1, a)
        ELSE IF IsTok(toks, r.next, Punct("]")) THEN PDone(Container("arr", a), r.next + 1)
        ELSE PFail

\* after '{' or ',' : a string, ':', a value, then ',' or '}'
ParsePairs(toks, i, acc) ==
    IF ~(i <= Len(toks) /\ toks[i].k = "str" /\ IsTok(toks, i + 1, Punct(":"))) THEN PFail
    ELSE LET r == ParseValue(toks, i + 2)
             d == DictSet(acc, StrK(toks[i].s), r.val)
         IN  IF ~r.ok THEN PFail
             ELSE IF IsTok(toks, r.next, Punct(",")) THEN ParsePairs(toks, r.next + 1, d)
             ELSE IF IsTok(toks, r.next, Punct("}")) THEN PDone(Container("obj", d), r.next + 1)
             ELSE PFail

ParseValue(toks, i) ==
    IF i > Len(toks) THEN PFail
    ELSE LET tok == toks[i] IN
         CASE tok.k = "null" -> PDone(Null, i + 1)
           [] tok.k = "num"  -> PDone(Num(tok.n), i + 1)
           [] tok.k = "str"  -> PDone(Str(tok.s), i + 1)
           [] tok.k = "bool" -> PDone(Scalar("bool", tok.n, ""), i + 1)
           [] tok = Punct("[") ->
                IF IsTok(toks, i + 1, Punct("]")) THEN PDone(Arr(<<>>), i + 2)
                ELSE ParseItems(toks, i + 1, <<>>)
           [] tok = Punct("{") ->
                IF IsTok(toks, i + 1, Punct("}")) THEN PDone(Obj(<<>>), i + 2)
                ELSE ParsePairs(toks, i + 1, <<>>)
           [] OTHER -> PFail

\* json.load of a whole text: one value and nothing after it
Loads(toks) ==
    LET r == ParseValue(toks, 1) IN
    IF r.ok /\ r.next = Len(toks) + 1 THEN r ELSE PFail

\* -------------------------------------------------- structural equality
RECURSIVE DeepEq(_, _)
\* structural equality: lists by position, dicts by key whatever the order
DeepEq(a, b) ==
    IF a.t # b.t THEN FALSE
    ELSE CASE a.t = "arr" -> /\ Len(a.c) = Len(b.c)
                             /\ \A i \in 1..Len(a.c) : DeepEq(a.c[i].val, b.c[i].val)
           [] a.t = "obj" -> /\ Len(a.c) = Len(b.c)
                             /\ \A i \in 1..Len(a.c) :
                                   /\ DictHas(b.c, a.c[i].key)
                                   /\ DeepEq(a.c[i].val, DictGet(b.c, a.c[i].key))
           [] OTHER -> a = b

RECURSIVE PyEq(_, _)
\* Python ==: as DeepEq, and True == 1, False == 0
PyEq(a, b) ==
    IF a.t \in {"num", "bool"} /\ b.t \in {"num", "bool"} THEN a.n = b.n
    ELSE IF a.t # b.t THEN FALSE
    ELSE CASE a.t = "arr" -> /\ Len(a.c) = Len(b.c)
                             /\ \A i \in 1..Len(a.c) : PyEq(a.c[i].val, b.c[i].val)
           [] a.t = "obj" -> /\ Len(a.c) = Len(b.c)
                             /\ \A i \in 1..Len(a.c) :
                                   /\ DictHas(b.c, a.c[i].key)
                                   /\ PyEq(a.c[i].val, DictGet(b.c, a.c[i].key))
           [] OTHER -> a = b

RECURSIVE Canonical(_)
\* canonical form: string keys only, plain lists and dicts below
Canonical(x) ==
    CASE x.t = "arr" -> \A i \in 1..Len(x.c) : Canonical(x.c[i].val)
      [] x.t = "obj" -> \A i \in 1..Len(x.c) : x.c[i].key.k = "str" /\ Canonical(x.c[i].val)
      [] OTHER -> TRUE

\* ------------------------------------------------------------------ state
Handles == {"h1", "h2"}             \* the JSONFileRoot instances of a run
First   == "h1"                     \* the one the constructor makes; the
                                    \* other is made by copy()

Ids == 1..(2 * MaxObj)              \* heap cells; the upper half is scratch
                                    \* space inside one operation

VARIABLES
    heap,       \* [Ids -> cell]: the dicts and lists alive, Free otherwise
    data,       \* [Handles -> value]: JSONFileRoot._data, a scalar or a Ref
    autosave,   \* [Handles -> BOOLEAN]: JSONFileRoot.autosave
    made,       \* [Handles -> BOOLEAN]: the handle has been constructed
    file,       \* [Handles -> [exists, text]]: the file at JSONFileRoot.path
    held,       \* what the caller holds: a proxy [jf, id], a detached
                \* container, or NoProxy
    res,        \* outcome of the last call, see Result
    ops,        \* number of writing calls made so far
    pc,         \* [at, old]: position inside a save() followed step by step, and
                \* the file it found
    tmp,        \* the temporary file of a save() in progress
    seen        \* what a reader of the target path last saw

vars == <<heap, data, autosave, made, file, held, res, ops, pc, tmp, seen>>

Free    == Scalar("free", 0, "")
NoFile  == [exists |-> FALSE, text |-> <<>>]
FileOf(text) == [exists |-> TRUE, text |-> text]
NoProxy == [jf |-> "none", id |-> 0]
Proxy(h, id) == [jf |-> h, id |-> id]
\* a plain dict or list that no root owns, as container.copy() returns it
Detached(id) == [jf |-> "detached", id |-> id]
\* the caller holds a proxy
Tracked == held.jf \in Handles


NoCall == [op |-> "none", key |-> NoKey]

\* The outcome of a call on handle h (or through a proxy of h): its name,
\* its subscript argument, whether it returned (ok), whether it replaced
\* the file (wrote), what it returned (ret), and prev, the call before it.
\* The reads root.data and p[key] are not recorded.
Result(h, op, key, ok, wrote, ret) ==
    [jf |-> h, op |-> op, key |-> key, ok |-> ok, wrote |-> wrote, ret |-> ret,
     prev |-> [op |-> res.op, key |-> res.key]]

\* ------------------------------------------------------------------- heap
RECURSIVE Deref(_, _)
\* the plain nested value a slot stands for
Deref(hp, slot) ==
    IF slot.t = "ref"
    THEN Container(hp[slot.n].t, [i \in 1..Len(hp[slot.n].c) |->
                                     Entry(hp[slot.n].c[i].key, Deref(hp, hp[slot.n].c[i].val))])
    ELSE slot

RefsOf(cell) == {cell.c[i].val.n : i \in {j \in 1..Len(cell.c) : cell.c[j].val.t = "ref"}}

RECURSIVE Reach(_, _)
\* the cells reachable from a set of cells
Reach(hp, ids) ==
    LET more == ids \cup UNION {RefsOf(hp[i]) : i \in ids}
    IN  IF more = ids THEN ids ELSE Reach(hp, more)

FreeId(hp) == CHOOSE i \in Ids : hp[i] = Free /\ \A j \in Ids : hp[j] = Free => i <= j

RECURSIVE StoreValue(_, _)
RECURSIVE StoreEntries(_, _, _, _)
\* Put a plain value into the heap as Python objects: a new cell for each
\* dict and list.  The result is [hp, slot].
StoreEntries(hp, entries, i, acc) ==
    IF i > Len(entries) THEN [hp |-> hp, c |-> acc]
    ELSE LET r == StoreValue(hp, entries[i].val)
         IN  StoreEntries(r.hp, entries, i + 1, Append(acc, Entry(entries[i].key, r.slot)))

StoreValue(hp, value) ==
    IF ~IsContainer(value) THEN [hp |-> hp, slot |-> value]
    ELSE LET r  == StoreEntries(hp, value.c, 1, <<>>)
             id == FreeId(r.hp)
         IN  [hp |-> [r.hp EXCEPT ![id] = Container(value.t, r.c)], slot |-> Ref(id)]

RECURSIVE NumContainers(_)
NumContainers(value) ==
    IF ~IsContainer(value) THEN 0
    ELSE LET RECURSIVE Sum(_)
             Sum(i) == IF i > Len(value.c) THEN 0 ELSE NumContainers(value.c[i].val) + Sum(i + 1)
         IN  1 + Sum(1)

\* The cells the program can still reach: from a root's _data or from the
\* held proxy.  Everything else is garbage.
Live(hp, d, hl) ==
    Reach(hp, {d[h].n : h \in {g \in Handles : d[g].t = "ref"}}
              \cup (IF hl = NoProxy THEN {} ELSE {hl.id}))

\* Cells are renumbered 1..k in the order of their old numbers after every
\* call, so that object identity carries no more than aliasing.
Rank(live, id) == Cardinality({j \in live : j <= id})

Renum(live, slot) == IF slot.t = "ref" THEN Ref(Rank(live, slot.n)) ELSE slot

RenumCell(live, cell) ==
    Container(cell.t, [i \in 1..Len(cell.c) |-> Entry(cell.c[i].key, Renum(live, cell.c[i].val))])

\* The state after a call: heap hp, roots d, held proxy hl.  The bounds of
\* the model are enforced here.  (\E x \in {e} : ... is LET x == e IN ...
\* with e evaluated once.)
Commit(hp, d, hl) ==
    \E live \in {Live(hp, d, hl)} :
    /\ Cardinality(live) <= MaxObj
    /\ \A i \in live : Len(hp[i].c) <= MaxLen
    /\ heap' = [i \in Ids |-> IF i <= Cardinality(live)
                              THEN RenumCell(live, hp[CHOOSE j \in live : Rank(live, j) = i])
                              ELSE Free]
    /\ data' = [h \in Handles |-> Renum(live, d[h])]
    /\ held' = IF hl = NoProxy THEN NoProxy ELSE Proxy(hl.jf, Rank(live, hl.id))

\* the tree a root owns, as a plain value
Tree(h) == Deref(heap, data[h])

\* ----------------------------------------------------------------- inputs
\* {"b": "1", "a": {"a": [true]}} as somebody else wrote it
NestedText ==
    << Punct("{"), TStr("b"), Punct(":"), TStr("1"), Punct(","),
       TStr("a"), Punct(":"), Punct("{"), TStr("a"), Punct(":"),
       Punct("["), TBool(1), Punct("]"), Punct("}"), Punct("}") >>

\* what the files may hold before the program starts: nothing, an empty
\* file, a broken text, null, a nested object
InitFiles ==
    { NoFile,
      FileOf(<<>>),
      FileOf(<<Punct("[")>>),
      FileOf(<<TNull>>),
      FileOf(NestedText) }

\* values handed to the constructor and to the mutating calls
Values == {Num(1), Absent, Obj(<< <<IntK(1), Null>> >>)}

\* values handed to the constructor and assigned to root.data
RootValues == {Absent, Null, Obj(<< <<IntK(1), Num(1)>> >>), Arr(<<Num(2), Arr(<<Num(1)>>)>>)}

Keys == {IntK(1), StrK("1"), StrK("a")}

Indexes == {-1, 0, MaxLen}

\* ------------------------------------------------------------ JSONFileRoot
\* save() that writes the tree as it was before the operation
SaveResult_BeforeOp(h, hp, d, f) ==
    LET tree == Deref(heap, data[h]) IN
    IF Dumpable(tree)
    THEN [ok |-> TRUE,  file |-> [f EXCEPT ![h] = FileOf(Dumps(tree))]]
    ELSE [ok |-> FALSE, file |-> f]

\* save() with every I/O step succeeding: the text of the tree replaces the
\* file.  json.dumps comes first, so a TypeError leaves the file alone.
\* The result is [ok, file].
SaveResult(h, hp, d, f) ==
    LET tree == Deref(hp, d[h]) IN
    IF Dumpable(tree)
    THEN [ok |-> TRUE,  file |-> [f EXCEPT ![h] = FileOf(Dumps(tree))]]
    ELSE [ok |-> FALSE, file |-> f]

\* load() that takes a file holding null for a file holding nothing
LoadResult_NullIsNoData(h, hp, d, f) ==
    LET r == Loads(f[h].text) IN
    IF ~f[h].exists THEN [ok |-> FALSE, hp |-> hp, d |-> d]
    ELSE IF f[h].text # <<>> /\ ~(r.ok /\ r.val = Null)
    THEN IF r.ok
         THEN LET st == StoreValue(hp, r.val)
              IN  [ok |-> TRUE, hp |-> st.hp, d |-> [d EXCEPT ![h] = st.slot]]
         ELSE [ok |-> FALSE, hp |-> hp, d |-> d]
    ELSE [ok |-> TRUE, hp |-> hp, d |-> [d EXCEPT ![h] = Absent]]

\* load() that reads the file only when the root has no data yet
LoadResult_KeepsData(h, hp, d, f) ==
    LET r == Loads(f[h].text) IN
    IF ~f[h].exists THEN [ok |-> FALSE, hp |-> hp, d |-> d]
    ELSE IF d[h] # Absent THEN [ok |-> TRUE, hp |-> hp, d |-> d]
    ELSE IF f[h].text # <<>>
    THEN IF r.ok
         THEN LET st == StoreValue(hp, r.val)
              IN  [ok |-> TRUE, hp |-> st.hp, d |-> [d EXCEPT ![h] = st.slot]]
         ELSE [ok |-> FALSE, hp |-> hp, d |-> d]
    ELSE [ok |-> TRUE, hp |-> hp, d |-> [d EXCEPT ![h] = Absent]]

\* load(): [ok, hp, d].  stat() raises on a missing file; json.load raises
\* on a malformed text before _data is assigned.
LoadResult(h, hp, d, f) ==
    LET r == Loads(f[h].text) IN
    IF ~f[h].exists THEN [ok |-> FALSE, hp |-> hp, d |-> d]
    ELSE IF f[h].text # <<>>
    THEN IF r.ok
         THEN LET st == StoreValue(hp, r.val)
              IN  [ok |-> TRUE, hp |-> st.hp, d |-> [d EXCEPT ![h] = st.slot]]
         ELSE [ok |-> FALSE, hp |-> hp, d |-> d]
    ELSE [ok |-> TRUE, hp |-> hp, d |-> [d EXCEPT ![h] = Absent]]

\* JSONFileRoot(path, data=value, autosave=as)
Construct(h, value, as) ==
    /\ ~made[h]
    /\ NumContainers(value) <= MaxObj
    /\ LET st == StoreValue(heap, value)
           d  == [data EXCEPT ![h] = st.slot]
           ld == IF value = Absent /\ file[h].exists
                 THEN LoadResult(h, st.hp, d, file)
                 ELSE [ok |-> TRUE, hp |-> st.hp, d |-> d]
           sv == IF value # Absent /\ as
                 THEN SaveResult(h, st.hp, d, file)
                 ELSE [ok |-> TRUE, file |-> file]
       IN  IF ld.ok /\ sv.ok
           THEN /\ made' = [made EXCEPT ![h] = TRUE]
                /\ autosave' = [autosave EXCEPT ![h] = as]
                /\ file' = sv.file
                /\ res' = Result(h, "init", NoKey, TRUE, value # Absent /\ as, Null)
                /\ Commit(ld.hp, ld.d, held)
           ELSE /\ res' = Result(h, "init", NoKey, FALSE, FALSE, Null)
                /\ UNCHANGED <<heap, data, autosave, made, file, held>>
    /\ UNCHANGED <<ops, pc, tmp, seen>>

\* g = h.copy(path, autosave=as): JSONFileRoot(path, data=self._data, ...),
\* so the new root's _data is the very object the old root holds.  The
\* constructor loads or saves as it does for any data.
Copy(h, g, as) ==
    /\ ops < MaxOps
    /\ ops' = ops + 1
    /\ made[h] /\ ~made[g] /\ g # h
    /\ LET d  == [data EXCEPT ![g] = data[h]]
           ld == IF data[h] = Absent /\ file[g].exists
                 THEN LoadResult(g, heap, d, file)
                 ELSE [ok |-> TRUE, hp |-> heap, d |-> d]
           sv == IF data[h] # Absent /\ as
                 THEN SaveResult(g, heap, d, file)
                 ELSE [ok |-> TRUE, file |-> file]
       IN  IF ld.ok /\ sv.ok
           THEN /\ made' = [made EXCEPT ![g] = TRUE]
                /\ autosave' = [autosave EXCEPT ![g] = as]
                /\ file' = sv.file
                /\ res' = Result(g, "copy", NoKey, TRUE, data[h] # Absent /\ as, Null)
                /\ Commit(ld.hp, ld.d, held)
           ELSE /\ res' = Result(g, "copy", NoKey, FALSE, FALSE, Null)
                /\ UNCHANGED <<heap, data, autosave, made, file, held>>
    /\ UNCHANGED <<pc, tmp, seen>>

\* root.data = value
SetData(h, value) ==
    /\ ops < MaxOps
    /\ ops' = ops + 1
    /\ made[h]
    /\ \E st \in {StoreValue(heap, InputValue(value))} :
       \E d \in {[data EXCEPT ![h] = st.slot]} :
       \E sv \in {IF autosave[h] THEN SaveResult(h, st.hp, d, file)
                  ELSE [ok |-> TRUE, file |-> file]} :
          /\ file' = sv.file
          /\ res' = Result(h, "setdata", NoKey, sv.ok, autosave[h] /\ sv.ok, Null)
          /\ Commit(st.hp, d, held)
    /\ UNCHANGED <<autosave, made, pc, tmp, seen>>

\* _outputvalue: a dict or a list is handed out as a proxy on that very
\* object, anything else as it is
OutputValue(h, slot) == IF slot.t = "ref" THEN Proxy(h, slot.n) ELSE NoProxy

\* p = root.data
GetData(h) ==
    /\ made[h]
    /\ Commit(heap, data, OutputValue(h, data[h]))
    /\ UNCHANGED <<autosave, made, file, res, ops, pc, tmp, seen>>

\* load() that forgets what it held before it parses the file
Load_ResetsFirst(h) ==
    /\ ops < MaxOps
    /\ ops' = ops + 1
    /\ made[h]
    /\ NumContainers(Loads(file[h].text).val) <= MaxObj
    /\ \E ld \in {LoadResult(h, heap, data, file)} :
          /\ res' = Result(h, "load", NoKey, ld.ok, FALSE, Null)
          /\ Commit(ld.hp, IF ld.ok THEN ld.d ELSE [data EXCEPT ![h] = Absent], held)
    /\ UNCHANGED <<autosave, made, file, pc, tmp, seen>>

\* root.load()
Load(h) ==
    /\ ops < MaxOps
    /\ ops' = ops + 1
    /\ made[h]
    /\ NumContainers(Loads(file[h].text).val) <= MaxObj
    /\ \E ld \in {LoadResult(h, heap, data, file)} :
          /\ res' = Result(h, "load", NoKey, ld.ok, FALSE, Null)
          /\ Commit(ld.hp, ld.d, held)
    /\ UNCHANGED <<autosave, made, file, pc, tmp, seen>>

\* root.save()
Save(h) ==
    /\ ops < MaxOps
    /\ ops' = ops + 1
    /\ made[h]
    /\ \E sv \in {SaveResult(h, heap, data, file)} :
          /\ file' = sv.file
          /\ res' = Result(h, "save", NoKey, sv.ok, sv.ok, Null)
    /\ UNCHANGED <<heap, data, autosave, made, held, pc, tmp, seen>>

\* root.delete(): unlink() raises when there is no file
Delete(h) ==
    /\ ops < MaxOps
    /\ ops' = ops + 1
    /\ made[h]
    /\ file' = [file EXCEPT ![h] = NoFile]
    /\ res' = Result(h, "delete", NoKey, file[h].exists, FALSE, Null)
    /\ UNCHANGED <<heap, data, autosave, made, held, pc, tmp, seen>>

\* del root: the class has no __del__ and is no context manager, so the
\* handle goes, with the proxies made from it, and nothing else happens
Drop(h) ==
    /\ ops < MaxOps
    /\ ops' = ops + 1
    /\ made[h]
    /\ made' = [made EXCEPT ![h] = FALSE]
    /\ autosave' = [autosave EXCEPT ![h] = FALSE]
    /\ res' = Result(h, "drop", NoKey, TRUE, FALSE, Null)
    /\ Commit(heap, [data EXCEPT ![h] = Absent], IF held.jf = h THEN NoProxy ELSE held)
    /\ UNCHANGED <<file, pc, tmp, seen>>

\* ------------------------------------------------------- JSONFileContainer
With(hp, id, entries) == [hp EXCEPT ![id] = Container(hp[id].t, entries)]

\* a Python index as a position 1..n, out of range otherwise
Pos(i, n) == IF i < 0 THEN n + i + 1 ELSE i + 1

\* the subscripts tried on a proxy: indexes on a list, keys on a dict
Subs(cell) == IF cell.t = "arr" THEN {IntK(i) : i \in Indexes} ELSE Keys

\* position of the entry a subscript names, 0 when there is none
\* (IndexError, KeyError)
Find(cell, key) ==
    IF cell.t = "arr"
    THEN IF Pos(key.n, Len(cell.c)) \in 1..Len(cell.c) THEN Pos(key.n, Len(cell.c)) ELSE 0
    ELSE DictIndex(cell.c, key, 1)

Done(hp, ret) == [ok |-> TRUE, hp |-> hp, ret |-> ret]
Fail(hp)      == [ok |-> FALSE, hp |-> hp, ret |-> Null]

\* AutoSave that writes only a text that differs from the file's
AutoSave_IfChanged(h, hp, f) ==
    IF autosave[h]
    THEN LET sv == SaveResult(h, hp, data, f)
         IN  [ok |-> sv.ok, file |-> sv.file, wrote |-> sv.ok /\ sv.file # f]
    ELSE [ok |-> TRUE, file |-> f, wrote |-> FALSE]

\* AutoSave that does not look at the flag
AutoSave_Always(h, hp, f) ==
    LET sv == SaveResult(h, hp, data, f) IN [ok |-> sv.ok, file |-> sv.file, wrote |-> sv.ok]

\* `if self._jsonfile.autosave: self._jsonfile.save()` at the end of a
\* mutating method: [ok, file, wrote]
AutoSave(h, hp, f) ==
    IF autosave[h]
    THEN LET sv == SaveResult(h, hp, data, f) IN [ok |-> sv.ok, file |-> sv.file, wrote |-> sv.ok]
    ELSE [ok |-> TRUE, file |-> f, wrote |-> FALSE]

\* A mutating method: the operation on the wrapped container gave r
\* ([ok, hp, ret]); when it did not raise, the autosave follows.  hl is what
\* the caller holds afterwards.
Mutate(op, key, result, hl) ==
    /\ ops < MaxOps
    /\ ops' = ops + 1
    /\ \E r \in {result} :
          /\ IF r.ok
             THEN \E sv \in {AutoSave(held.jf, r.hp, file)} :
                     /\ file' = sv.file
                     /\ res' = Result(held.jf, op, key, sv.ok, sv.wrote, r.ret)
             ELSE /\ file' = file
                  /\ res' = Result(held.jf, op, key, FALSE, FALSE, Null)
          /\ Commit(r.hp, data, IF r.ok THEN hl ELSE held)
    /\ UNCHANGED <<autosave, made, pc, tmp, seen>>

\* what the caller holds is a proxy, on a container of type t
IsProxy(t) == Tracked /\ heap[held.id].t = t

\* self._data.__delitem__(key)
DoDelItem(hp, id, key) ==
    IF Find(hp[id], key) = 0 THEN Fail(hp)
    ELSE Done(With(hp, id, SeqRemove(hp[id].c, Find(hp[id], key))), Null)

DelItem(key) ==
    /\ Tracked
    /\ key \in Subs(heap[held.id])
    /\ Mutate("delitem", key, DoDelItem(heap, held.id, key), held)

\* q = p[key]: a container comes back as a proxy; a scalar, or a KeyError
\* or IndexError, leaves the caller with what it held
GetItem(key) ==
    /\ Tracked
    /\ key \in Subs(heap[held.id])
    /\ LET cell == heap[held.id]
           i    == Find(cell, key)
       IN  Commit(heap, data, IF i # 0 /\ cell.c[i].val.t = "ref"
                              THEN OutputValue(held.jf, cell.c[i].val) ELSE held)
    /\ UNCHANGED <<autosave, made, file, res, ops, pc, tmp, seen>>

\* self._data.__setitem__(key, value): the value goes in as it is
DoSetItem(hp, id, key, value) ==
    LET st == StoreValue(hp, value)
        c  == st.hp[id].c
    IN  IF hp[id].t = "arr"
        THEN IF Find(hp[id], key) = 0 THEN Fail(hp)
             ELSE Done(With(st.hp, id, [c EXCEPT ![Find(hp[id], key)] = Entry(NoKey, st.slot)]), Null)
        ELSE Done(With(st.hp, id, DictSet(c, key, st.slot)), Null)

\* JSONFileObject.__setitem__ with the key left as given
DoObjectSetItem_RawKey(hp, id, key, value) == DoSetItem(hp, id, key, InputValue(value))

\* JSONFileObject.__setitem__: str(key) and _inputvalue(value), then the
\* container's __setitem__
DoObjectSetItem(hp, id, key, value) == DoSetItem(hp, id, KeyStr(key), InputValue(value))

SetItem(key, value) ==
    /\ Tracked
    /\ key \in Subs(heap[held.id])
    /\ Mutate("setitem", key,
              IF heap[held.id].t = "obj"
              THEN DoObjectSetItem(heap, held.id, key, value)
              ELSE DoSetItem(heap, held.id, key, value),
              held)

Clear ==
    /\ Tracked
    /\ Mutate("clear", NoKey, Done(With(heap, held.id, <<>>), Null), held)

\* ----------------------------------------------------------- JSONFileArray
\* the operators as list would have them: a new list comes back
Rejected_Inherited(op) ==
    /\ IsProxy("arr")
    /\ op \in {"add", "mul", "rmul"}
    /\ ops < MaxOps
    /\ ops' = ops + 1
    /\ res' = Result(held.jf, op, NoKey, TRUE, FALSE, Deref(heap, Ref(held.id)))
    /\ UNCHANGED <<heap, data, autosave, made, file, held, pc, tmp, seen>>

\* container.copy() that copies the top container only
CopyOut_Shallow ==
    /\ Tracked
    /\ ops < MaxOps
    /\ ops' = ops + 1
    /\ \E id \in {FreeId(heap)} :
          Commit([heap EXCEPT ![id] = heap[held.id]], data, Detached(id))
    /\ res' = Result("detached", "deepcopy", NoKey, TRUE, FALSE, Null)
    /\ UNCHANGED <<autosave, made, file, pc, tmp, seen>>

\* c = p.copy(): copy.deepcopy(self._data), new objects at every depth; the
\* caller is left with a plain dict or list
CopyOut ==
    /\ Tracked
    /\ ops < MaxOps
    /\ ops' = ops + 1
    /\ \E st \in {StoreValue(heap, Deref(heap, Ref(held.id)))} :
          Commit(st.hp, data, Detached(st.slot.n))
    /\ res' = Result("detached", "deepcopy", NoKey, TRUE, FALSE, Null)
    /\ UNCHANGED <<autosave, made, file, pc, tmp, seen>>

\* list.append(item) on the list id inside the copy: no proxy, no autosave
CopyAppend(id, item) ==
    /\ held.jf = "detached"
    /\ id \in Reach(heap, {held.id})
    /\ heap[id].t = "arr"
    /\ ops < MaxOps
    /\ ops' = ops + 1
    /\ \E st \in {StoreValue(heap, item)} :
          Commit(With(st.hp, id, Append(st.hp[id].c, Entry(NoKey, st.slot))), data, held)
    /\ res' = Result("detached", "rawappend", NoKey, TRUE, FALSE, Null)
    /\ UNCHANGED <<autosave, made, file, pc, tmp, seen>>

\* dict.__setitem__(key, value) on the dict id inside the copy
CopySetItem(id, key, value) ==
    /\ held.jf = "detached"
    /\ id \in Reach(heap, {held.id})
    /\ heap[id].t = "obj"
    /\ ops < MaxOps
    /\ ops' = ops + 1
    /\ \E w \in {DoSetItem(heap, id, key, value)} : Commit(w.hp, data, held)
    /\ res' = Result("detached", "rawsetitem", key, TRUE, FALSE, Null)
    /\ UNCHANGED <<autosave, made, file, pc, tmp, seen>>

\* __add__, __mul__, __rmul__ raise AttributeError and touch nothing
Rejected(op) ==
    /\ IsProxy("arr")
    /\ op \in {"add", "mul", "rmul"}
    /\ ops < MaxOps
    /\ ops' = ops + 1
    /\ res' = Result(held.jf, op, NoKey, FALSE, FALSE, Null)
    /\ UNCHANGED <<heap, data, autosave, made, file, held, pc, tmp, seen>>

\* what iterating a value yields: the items of a list, the keys of a dict
IterOf(value) ==
    IF value.t = "arr" THEN value.c
    ELSE [i \in 1..Len(value.c) |-> Entry(NoKey, Str(value.c[i].key.s))]

\* list.extend / list +=: the items are appended one by one
DoExtend(hp, id, items) ==
    LET st == StoreEntries(hp, items, 1, <<>>)
    IN  With(st.hp, id, st.hp[id].c \o st.c)

\* self._data += self._inputvalue(other); the method returns None
DoIAdd(hp, id, other) ==
    IF ~IsContainer(other) THEN Fail(hp)
    ELSE Done(DoExtend(hp, id, IterOf(InputValue(other))), Null)

\* p += other: p is bound to what __iadd__ returned
IAdd(other) ==
    /\ IsProxy("arr")
    /\ Mutate("iadd", NoKey, DoIAdd(heap, held.id, other), NoProxy)

RECURSIVE Repeat(_, _)
Repeat(entries, n) == IF n <= 0 THEN <<>> ELSE entries \o Repeat(entries, n - 1)

\* p *= n
IMul(n) ==
    /\ IsProxy("arr")
    /\ Mutate("imul", NoKey, Done(With(heap, held.id, Repeat(heap[held.id].c, n)), Null), NoProxy)

\* p[key] += other: q = p[key]; r = q.__iadd__(other); p[key] = r
ItemIAdd(key, other) ==
    /\ ops < MaxOps
    /\ ops' = ops + 1
    /\ Tracked
    /\ key \in Subs(heap[held.id])
    /\ LET h    == held.jf
           cell == heap[held.id]
           i    == Find(cell, key)
           q    == cell.c[i].val
           r    == DoIAdd(heap, q.n, other)
           s1   == AutoSave(h, r.hp, file)
           w    == IF cell.t = "obj" THEN DoObjectSetItem(r.hp, held.id, key, Null)
                   ELSE DoSetItem(r.hp, held.id, key, Null)
           s2   == AutoSave(h, w.hp, s1.file)
       IN  /\ i # 0
           /\ q.t = "ref"
           /\ heap[q.n].t = "arr"
           /\ IF ~r.ok THEN /\ file' = file
                            /\ res' = Result(h, "itemiadd", key, FALSE, FALSE, Null)
                            /\ Commit(r.hp, data, held)
              ELSE IF ~s1.ok THEN /\ file' = s1.file
                                  /\ res' = Result(h, "itemiadd", key, FALSE, FALSE, Null)
                                  /\ Commit(r.hp, data, held)
              ELSE /\ file' = s2.file
                   /\ res' = Result(h, "itemiadd", key, s2.ok, s1.wrote \/ s2.wrote, Null)
                   /\ Commit(w.hp, data, held)
    /\ UNCHANGED <<autosave, made, pc, tmp, seen>>

ArrayAppend(item) ==
    /\ IsProxy("arr")
    /\ Mutate("append", NoKey, Done(DoExtend(heap, held.id, <<Entry(NoKey, InputValue(item))>>), Null), held)

\* An iterable is [c, fails]: it yields the items c and then stops, or
\* raises.  list.extend keeps what it appended before the iterable raised.
Iterables ==
    { [c |-> <<>>, fails |-> FALSE],
      [c |-> Arr(<<Num(1), Obj(<< <<IntK(1), Null>> >>)>>).c, fails |-> FALSE],
      [c |-> Arr(<<Num(1)>>).c, fails |-> TRUE] }

Extend(iterable) ==
    /\ IsProxy("arr")
    /\ LET hp == DoExtend(heap, held.id, InputValue(Container("arr", iterable.c)).c)
       IN  Mutate("extend", NoKey, IF iterable.fails THEN Fail(hp) ELSE Done(hp, Null), held)

\* list.insert clamps the index
InsPos(i, n) == IF i < 0 THEN (IF n + i < 0 THEN 1 ELSE n + i + 1)
                ELSE IF i > n THEN n + 1 ELSE i + 1

Insert(i, elem) ==
    /\ IsProxy("arr")
    /\ LET st == StoreValue(heap, InputValue(elem))
           c  == st.hp[held.id].c
       IN  Mutate("insert", NoKey,
                  Done(With(st.hp, held.id, SeqInsert(c, InsPos(i, Len(c)), Entry(NoKey, st.slot))), Null),
                  held)

\* list.pop(index), dict.pop(key, default)
DoPop(hp, id, key, default) ==
    LET i == Find(hp[id], key) IN
    IF i = 0
    THEN IF hp[id].t = "arr" THEN Fail(hp) ELSE Done(hp, default)
    ELSE Done(With(hp, id, SeqRemove(hp[id].c, i)), Deref(hp, hp[id].c[i].val))

Pop(key, default) ==
    /\ Tracked
    /\ key \in Subs(heap[held.id])
    /\ Mutate("pop", key, DoPop(heap, held.id, key, default), held)

\* list.remove(value): the first equal item
RECURSIVE IndexOf(_, _, _, _)
IndexOf(hp, entries, value, i) ==
    IF i > Len(entries) THEN 0
    ELSE IF PyEq(Deref(hp, entries[i].val), value) THEN i
    ELSE IndexOf(hp, entries, value, i + 1)

Remove(value) ==
    /\ IsProxy("arr")
    /\ LET c == heap[held.id].c
           i == IndexOf(heap, c, value, 1)
       IN  Mutate("remove", NoKey,
                  IF i = 0 THEN Fail(heap) ELSE Done(With(heap, held.id, SeqRemove(c, i)), Null),
                  held)

Reverse ==
    /\ IsProxy("arr")
    /\ LET c == heap[held.id].c
       IN  Mutate("reverse", NoKey, Done(With(heap, held.id, [i \in 1..Len(c) |-> c[Len(c) + 1 - i]]), Null), held)

\* a < b in Python: "lt", "ge", or "err" for a TypeError
RECURSIVE PyLess(_, _)
PyLess(a, b) ==
    LET Ordered(x) == x.t \in {"num", "bool"}
        diff == {i \in 1..Len(a.c) : i <= Len(b.c) /\ ~PyEq(a.c[i].val, b.c[i].val)}
        first == CHOOSE i \in diff : \A j \in diff : i <= j
    IN  IF Ordered(a) /\ Ordered(b) THEN (IF a.n < b.n THEN "lt" ELSE "ge")
        ELSE IF a.t = "str" /\ b.t = "str"
             THEN (IF StrRank(a.s) < StrRank(b.s) THEN "lt" ELSE "ge")
        ELSE IF a.t = "arr" /\ b.t = "arr"
             THEN IF diff = {} THEN (IF Len(a.c) < Len(b.c) THEN "lt" ELSE "ge")
                  ELSE PyLess(a.c[first].val, b.c[first].val)
        ELSE "err"

RECURSIVE SortStable(_)
\* the items in ascending order, equal items in their old order
SortStable(vals) ==
    IF vals = <<>> THEN <<>>
    ELSE LET m == CHOOSE i \in 1..Len(vals) :
                     /\ \A j \in 1..Len(vals) : PyLess(vals[j].val, vals[i].val) # "lt"
                     /\ \A j \in 1..(i - 1) : PyLess(vals[i].val, vals[j].val) = "lt"
         IN  <<vals[m]>> \o SortStable(SeqRemove(vals, m))

Perms(c) ==
    {[i \in 1..Len(c) |-> c[p[i]]] : p \in {q \in [1..Len(c) -> 1..Len(c)] : \A i, j \in 1..Len(c) : q[i] = q[j] => i = j}}

\* list.sort() on items that are all scalars, or on at most two items.
\* Items of more than one kind, or that have no order (None), make a
\* comparison raise TypeError: with up to three items that happens before
\* the list is touched, with more the list is left partly sorted.
SortOutcomes(c) ==
    IF Len(c) <= 1 THEN {[ok |-> TRUE, c |-> c]}
    ELSE IF \A i, j \in 1..Len(c) : i = j \/ PyLess(c[i].val, c[j].val) # "err"
         THEN {[ok |-> TRUE, c |-> SortStable(c)]}
    ELSE IF Len(c) <= 3 THEN {[ok |-> FALSE, c |-> c]}
    ELSE {[ok |-> FALSE, c |-> p] : p \in Perms(c)}

Sort ==
    /\ IsProxy("arr")
    /\ LET c == heap[held.id].c
           v == [i \in 1..Len(c) |-> Entry(NoKey, Deref(heap, c[i].val))]
       IN  /\ Len(c) <= 2 \/ \A i \in 1..Len(c) : c[i].val.t # "ref"
           /\ \E o \in SortOutcomes(v) :
                 \E p \in Perms(c) :
                    /\ [i \in 1..Len(c) |-> Entry(NoKey, Deref(heap, p[i].val))] = o.c
                    /\ Mutate("sort", NoKey, IF o.ok THEN Done(With(heap, held.id, p), Null)
                                      ELSE Fail(With(heap, held.id, p)), held)

\* ---------------------------------------------------------- JSONFileObject
\* dict.popitem(): the pair inserted last
PopItem ==
    /\ IsProxy("obj")
    /\ LET c == heap[held.id].c
       IN  Mutate("popitem", NoKey,
                  IF c = <<>> THEN Fail(heap)
                  ELSE Done(With(heap, held.id, SubSeq(c, 1, Len(c) - 1)), Deref(heap, c[Len(c)].val)),
                  held)

\* setdefault: `return self[key]`; on KeyError `self[key] = default` (an
\* assignment through the proxy, autosave included) and `return self[key]`
\* again, both lookups with the key as given
SetDefault(key, default) ==
    /\ ops < MaxOps
    /\ ops' = ops + 1
    /\ IsProxy("obj")
    /\ key \in Keys
    /\ LET c  == heap[held.id].c
           w  == DoObjectSetItem(heap, held.id, key, default)
           sv == AutoSave(held.jf, w.hp, file)
           c2 == w.hp[held.id].c
       IN  IF DictHas(c, key)
           THEN /\ file' = file
                /\ res' = Result(held.jf, "setdefault", key, TRUE, FALSE, Deref(heap, DictGet(c, key)))
                /\ Commit(heap, data, held)
           ELSE /\ file' = sv.file
                /\ res' = IF sv.ok /\ DictHas(c2, key)
                          THEN Result(held.jf, "setdefault", key, TRUE, sv.wrote, Deref(w.hp, DictGet(c2, key)))
                          ELSE Result(held.jf, "setdefault", key, FALSE, sv.wrote, Null)
                /\ Commit(w.hp, data, held)
    /\ UNCHANGED <<autosave, made, pc, tmp, seen>>

\* The argument of update(): a mapping, an iterable of key/value pairs, or
\* keyword arguments.  _inputvalue turns a mapping into a dict with string
\* keys; of a list of pairs it only rebuilds the lists, so dict.update gets
\* the keys as they are.  Keyword names are strings.
UpdateArgs ==
    { [kind |-> "mapping", c |-> Obj(<< <<IntK(1), Num(2)>> >>).c],
      [kind |-> "pairs",   c |-> Obj(<< <<IntK(1), Num(2)>> >>).c],
      [kind |-> "pairs",   c |-> Obj(<< <<StrK("a"), Arr(<<>>)>> >>).c],
      [kind |-> "kwargs",  c |-> Obj(<< <<StrK("a"), Obj(<< <<IntK(1), Null>> >>)>> >>).c] }

UpdateEntries(arg) ==
    IF arg.kind = "pairs"
    THEN [i \in 1..Len(arg.c) |-> Entry(arg.c[i].key, InputValue(arg.c[i].val))]
    ELSE InputValue(Container("obj", arg.c)).c

Update(arg) ==
    /\ IsProxy("obj")
    /\ LET st == StoreEntries(heap, UpdateEntries(arg), 1, <<>>)
       IN  Mutate("update", NoKey, Done(With(st.hp, held.id, DictUpdate(st.hp[held.id].c, st.c, 1)), Null), held)

ProxyStep ==
    \/ \E key \in Keys \cup {IntK(i) : i \in Indexes} :
          \/ DelItem(key)
          \/ GetItem(key)
          \/ \E value \in Values : SetItem(key, value)
          \/ Pop(key, Null)
          \/ \E other \in {Num(1), Arr(<<Num(1), Obj(<< <<IntK(1), Null>> >>)>>)} : ItemIAdd(key, other)
    \/ Clear
    \/ \E op \in {"add", "mul", "rmul"} : Rejected(op)
    \/ \E other \in {Num(1), Arr(<<Num(1), Obj(<< <<IntK(1), Null>> >>)>>)} : IAdd(other)
    \/ \E n \in {0, 2} : IMul(n)
    \/ \E item \in Values : ArrayAppend(item)
    \/ \E iterable \in Iterables : Extend(iterable)
    \/ \E i \in Indexes : Insert(i, Arr(<<Null>>))
    \/ \E value \in {Num(1), Arr(<<Num(1)>>)} : Remove(value)
    \/ Reverse
    \/ Sort
    \/ PopItem
    \/ \E key \in Keys : SetDefault(key, Obj(<< <<IntK(1), Num(2)>> >>))
    \/ \E arg \in UpdateArgs : Update(arg)
    \/ CopyOut
    \/ \E id \in Ids : CopyAppend(id, Num(1))
    \/ \E id \in Ids : CopySetItem(id, StrK("a"), Null)

RootStep ==
    \/ \E value \in RootValues, as \in BOOLEAN : Construct(First, value, as)
    \/ \E h \in Handles :
        \/ \E g \in Handles, as \in BOOLEAN : Copy(h, g, as)
        \/ \E value \in RootValues : SetData(h, value)
        \/ GetData(h)
        \/ Load(h)
        \/ Save(h)
        \/ Delete(h)
        \/ Drop(h)

Init ==
    /\ heap = [i \in Ids |-> Free]
    /\ data = [h \in Handles |-> Absent]
    /\ autosave = [h \in Handles |-> FALSE]
    /\ made = [h \in Handles |-> FALSE]
    /\ file \in {f \in [Handles -> InitFiles] : \A h \in Handles \ {First} : f[h] = NoFile}
    /\ held = NoProxy
    /\ res = [jf |-> "none", op |-> "none", key |-> NoKey, ok |-> TRUE, wrote |-> FALSE,
              ret |-> Null, prev |-> NoCall]
    /\ ops = 0
    /\ pc = [at |-> "idle", old |-> NoFile, call |-> "save"]
    /\ tmp = NoFile
    /\ seen = NoFile

\* ------------------------------------------------- save(), step by step
\* save() is `s = json.dumps(...)`, then NamedTemporaryFile(dir=p.parent,
\* delete=False), tf.write(s), the close at the end of the with block, and
\* tp.replace(p).  Any step after json.dumps may fail with an I/O error, or
\* the process may be stopped there; the temporary file is then left
\* behind.  Another process may read the target path at any time.

\* the text going straight to the target path
WriteTemp_InPlace(h, f, t, tok) ==
    [file |-> [f EXCEPT ![h] = FileOf(Append(t.text, tok))], tmp |-> FileOf(Append(t.text, tok))]

\* the text goes to the temporary file, token after token
WriteTemp(h, f, t, tok) == [file |-> f, tmp |-> FileOf(Append(t.text, tok))]

SaveText(h) == Dumps(Tree(h))

SaveDumps(h) ==
    /\ made[h]
    /\ pc.at = "idle"
    /\ IF Dumpable(Tree(h))
       THEN /\ pc' = [at |-> "dumped", old |-> file[h], call |-> "save"]
            /\ UNCHANGED res
       ELSE /\ pc' = [at |-> "idle", old |-> file[h], call |-> "save"]
            /\ res' = Result(h, "save", NoKey, FALSE, FALSE, Null)
    /\ UNCHANGED <<heap, data, autosave, made, file, held, ops, tmp, seen>>

SaveOpenTemp(h) ==
    /\ pc.at = "dumped"
    /\ pc' = [pc EXCEPT !.at = "writing"]
    /\ tmp' = FileOf(<<>>)
    /\ UNCHANGED <<heap, data, autosave, made, file, held, res, ops, seen>>

SaveWrite(h) ==
    /\ pc.at = "writing"
    /\ Len(tmp.text) < Len(SaveText(h))
    /\ \E w \in {WriteTemp(h, file, tmp, SaveText(h)[Len(tmp.text) + 1])} :
          /\ file' = w.file
          /\ tmp' = w.tmp
    /\ UNCHANGED <<heap, data, autosave, made, held, res, ops, pc, seen>>

SaveClose(h) ==
    /\ pc.at = "writing"
    /\ Len(tmp.text) = Len(SaveText(h))
    /\ pc' = [pc EXCEPT !.at = "closed"]
    /\ UNCHANGED <<heap, data, autosave, made, file, held, res, ops, tmp, seen>>

\* tp.replace(p): the rename puts the whole temporary file at the path
SaveReplace(h) ==
    /\ pc.at = "closed"
    /\ file' = [file EXCEPT ![h] = tmp]
    /\ tmp' = NoFile
    /\ pc' = [pc EXCEPT !.at = "idle"]
    /\ res' = Result(h, pc.call, NoKey, TRUE, TRUE, Null)
    /\ UNCHANGED <<heap, data, autosave, made, held, ops, seen>>

\* an I/O error or an interruption at the step save() has reached
SaveFail_Swallowed(h) ==
    /\ pc.at \in {"dumped", "writing", "closed"}
    /\ pc' = [pc EXCEPT !.at = "idle"]
    /\ res' = Result(h, pc.call, NoKey, TRUE, FALSE, Null)
    /\ UNCHANGED <<heap, data, autosave, made, file, held, ops, tmp, seen>>

\* The exception leaves save() and, when save() was called at the end of a
\* mutating call, that call: nothing on the way catches it.
SaveFail(h) ==
    /\ pc.at \in {"dumped", "writing", "closed"}
    /\ pc' = [pc EXCEPT !.at = "idle"]
    /\ res' = Result(h, pc.call, NoKey, FALSE, FALSE, Null)
    /\ UNCHANGED <<heap, data, autosave, made, file, held, ops, tmp, seen>>

\* another process reads the file at the path
ReadTarget(h) ==
    /\ seen' = file[h]
    /\ UNCHANGED <<heap, data, autosave, made, file, held, res, ops, pc, tmp>>

\* root.data = value between two saves, autosave off
Assign(h, value) ==
    /\ pc.at = "idle"
    /\ ~autosave[h]
    /\ SetData(h, value)

\* The save() at the end of a mutating call, autosave on: the call has
\* changed the tree (heap hp, roots d) and save() starts with json.dumps.
StartAutoSave(h, call, hp, d) ==
    /\ pc.at = "idle"
    /\ made[h] /\ autosave[h]
    /\ ops < MaxOps
    /\ ops' = ops + 1
    /\ IF Dumpable(Deref(hp, d[h]))
       THEN /\ pc' = [at |-> "dumped", old |-> file[h], call |-> call]
            /\ UNCHANGED res
       ELSE /\ pc' = [at |-> "idle", old |-> file[h], call |-> call]
            /\ res' = Result(h, call, NoKey, FALSE, FALSE, Null)
    /\ Commit(hp, d, held)
    /\ UNCHANGED <<autosave, made, file, tmp, seen>>

\* root.data = value, autosave on
AssignSave(h, value) ==
    \E st \in {StoreValue(heap, InputValue(value))} :
        StartAutoSave(h, "setdata", st.hp, [data EXCEPT ![h] = st.slot])

\* root.data.append(item), autosave on
AppendSave(h, item) ==
    /\ data[h].t = "ref"
    /\ heap[data[h].n].t = "arr"
    /\ StartAutoSave(h, "append",
                     DoExtend(heap, data[h].n, <<Entry(NoKey, InputValue(item))>>), data)

\* values whose texts differ in length and nesting
SaveValues ==
    { Null, Arr(<<Arr(<<Num(1)>>)>>), Absent,
      Obj(<< <<StrK("b"), Str("1")>>, <<StrK("a"), Obj(<< <<StrK("a"), Arr(<<Bool(TRUE)>>)>> >>)>> >>) }

\* A handle without autosave, over a path that holds nothing or a text
\* saved earlier; or a handle with autosave, whose constructor has saved
\* the data it was given.
InitSave ==
    /\ \E value \in SaveValues, as \in BOOLEAN :
          /\ heap = StoreValue([i \in Ids |-> Free], value).hp
          /\ data = [h \in Handles |-> IF h = First
                                        THEN StoreValue([i \in Ids |-> Free], value).slot
                                        ELSE Absent]
          /\ autosave = [h \in Handles |-> h = First /\ as]
          /\ IF as
             THEN file = [h \in Handles |-> IF h = First /\ value # Absent
                                             THEN FileOf(Dumps(value)) ELSE NoFile]
             ELSE file \in {f \in [Handles -> {NoFile, FileOf(<<TNull>>), FileOf(Dumps(Arr(<<Num(1)>>)))}] :
                               \A h \in Handles \ {First} : f[h] = NoFile}
    /\ made = [h \in Handles |-> h = First]
    /\ held = NoProxy
    /\ res = [jf |-> "none", op |-> "none", key |-> NoKey, ok |-> TRUE, wrote |-> FALSE,
              ret |-> Null, prev |-> NoCall]
    /\ ops = 0
    /\ pc = [at |-> "idle", old |-> NoFile, call |-> "save"]
    /\ tmp = NoFile
    /\ seen = NoFile

NextSave ==
    \E h \in {First} :
        \/ SaveDumps(h)
        \/ SaveOpenTemp(h)
        \/ SaveWrite(h)
        \/ SaveClose(h)
        \/ SaveReplace(h)
        \/ SaveFail(h)
        \/ ReadTarget(h)
        \/ \E value \in SaveValues : Assign(h, value)
        \/ \E value \in SaveValues : AssignSave(h, value)
        \/ \E item \in {Num(1), Absent} : AppendSave(h, item)

SpecSave == InitSave /\ [][NextSave]_vars

Next == RootStep \/ ProxyStep

Spec == Init /\ [][Next]_vars

\* ============================================================ properties
\* the mutating operations of the proxies
MutatingOps ==
    { "delitem", "setitem", "clear", "iadd", "imul", "itemiadd", "append", "extend",
      "insert", "pop", "remove", "reverse", "sort", "popitem", "setdefault", "update" }

\* the file of h holds the text of the whole tree of h
InSync(h) == Dumpable(Tree(h)) /\ file[h] = FileOf(Dumps(Tree(h)))

\* the tree of h after the step
TreeAfter(h) == Deref(heap', data'[h])

\* the held proxy is on a container two levels below the root's
HeldAtDepth3 ==
    /\ Tracked
    /\ \E a, b \in Ids :
          /\ data[held.jf] = Ref(a)
          /\ b \in RefsOf(heap[a])
          /\ held.id \in RefsOf(heap[b])

RECURSIVE IsJson(_)
\* a canonical JSON value: string keys, and nothing json cannot write
IsJson(x) ==
    CASE x.t = "absent" -> FALSE
      [] x.t = "arr" -> \A i \in 1..Len(x.c) : IsJson(x.c[i].val)
      [] x.t = "obj" -> \A i \in 1..Len(x.c) : x.c[i].key.k = "str" /\ IsJson(x.c[i].val)
      [] OTHER -> TRUE

\* C1 as stated: with autosave on, whenever a mutating operation through a
\* proxy returns, the file holds the text of the root's whole tree.
C1_Original ==
    (res.op \in MutatingOps /\ res.ok /\ autosave[res.jf]) => InSync(res.jf)

\* C1, amended: with autosave on, whenever a mutating operation through a
\* proxy returns, the file holds the text of the root's whole tree, except
\* after a setdefault that found its key and so saved nothing.
C1_AutosavePropagation ==
    (res.op \in MutatingOps /\ res.ok /\ autosave[res.jf]
        /\ ~(res.op = "setdefault" /\ ~res.wrote)) => InSync(res.jf)

C1_Witness ==
    /\ res.op = "append" /\ res.ok /\ autosave[res.jf]
    /\ HeldAtDepth3
    /\ InSync(res.jf)

\* C2: a mutating operation through a proxy that raises leaves the root's
\* tree structurally equal to the tree before the call.
C2_Rollback ==
    [][(ops' # ops /\ res'.op \in MutatingOps /\ ~res'.ok)
          => DeepEq(TreeAfter(res'.jf), Tree(res'.jf))]_vars

\* a file is whole when it is absent or holds one complete JSON text
Whole(f) == ~f.exists \/ Loads(f.text).ok

\* C3: at every step of save(), and after a save() that failed or was
\* interrupted, the target path holds what it held when save() began; once
\* save() has returned it holds the whole new text; a reader of the path
\* never sees a partial text.
C3_AtomicSave ==
    \A h \in {First} :
        /\ pc.at # "idle" => file[h] = pc.old
        /\ (pc.at = "idle" /\ res.op = "save" /\ ~res.ok) => file[h] = pc.old
        /\ (pc.at = "idle" /\ res.op = "save" /\ res.ok) => file[h] = FileOf(SaveText(h))
        /\ Whole(file[h])
        /\ Whole(seen)

C3_Witness ==
    /\ res.op = "save" /\ ~res.ok /\ pc.at = "idle"
    /\ Dumpable(Tree("h1")) /\ tmp = FileOf(SaveText("h1"))
    /\ file["h1"].exists /\ file["h1"] = pc.old /\ file["h1"] # tmp
    /\ seen = file["h1"]

\* C4: for a canonical value held as the root's data, save() followed by
\* load() leaves the data structurally equal to it.
C4_RoundTrip ==
    [][(ops' # ops /\ res'.op = "load" /\ res.op = "save" /\ res.ok /\ res'.jf = res.jf
           /\ IsJson(Tree(res.jf)))
          => (res'.ok /\ DeepEq(TreeAfter(res.jf), Tree(res.jf)))]_vars

C4_Witness ==
    /\ res.op = "load" /\ res.ok /\ res.prev.op = "save"
    /\ IsJson(Tree(res.jf))
    /\ InSync(res.jf)
    /\ \E a, b \in Ids : data[res.jf] = Ref(a) /\ heap[a].t = "obj" /\ b \in RefsOf(heap[a])

\* a call that may have autosaved and left the tree structurally as it was
NoChangeCall ==
    /\ ops' # ops
    /\ res'.op \in MutatingOps \cup {"setdata"}
    /\ res'.ok
    /\ autosave[res'.jf]
    /\ DeepEq(TreeAfter(res'.jf), Tree(res'.jf))

C6_CanonicalTree ==
    \A h \in Handles : made[h] => Canonical(Tree(h))

\* C7: an assignment through an object proxy with key k stores the
\* normalized value under str(k), in the one entry with that key, and makes
\* no entry under a non-string key; so assigning with 1 and then with "1"
\* writes one slot.
C7_KeyCoercion ==
    [][\A key \in Keys, value \in Values :
          (IsProxy("obj") /\ SetItem(key, value)) =>
              LET c == heap'[held'.id].c
                  k == KeyStr(key)
              IN  /\ DictHas(c, k)
                  /\ Deref(heap', DictGet(c, k)) = InputValue(value)
                  /\ Cardinality({i \in 1..Len(c) : c[i].key = k}) = 1
                  /\ \A i \in 1..Len(c) :
                        c[i].key.k = "int" => DictHas(heap[held.id].c, c[i].key)]_vars

C7_Witness ==
    /\ res.op = "setitem" /\ res.key = StrK("1")
    /\ res.prev = [op |-> "setitem", key |-> IntK(1)]
    /\ IsProxy("obj")
    /\ Cardinality({i \in 1..Len(heap[held.id].c) : heap[held.id].c[i].key = StrK("1")}) = 1
    /\ ~DictHas(heap[held.id].c, IntK(1))

\* C8: proxy + xs, proxy * n and n * proxy on an array proxy raise, hand out
\* no container, and leave the tree and the file as they were.
C8_DetachmentRejected ==
    [][(ops' # ops /\ res'.op \in {"add", "mul", "rmul"})
          => (~res'.ok /\ res'.ret = Null /\ heap' = heap /\ data' = data /\ file' = file)]_vars

C8_Witness ==
    /\ res.op = "rmul" /\ ~res.ok
    /\ IsProxy("arr") /\ data[res.jf] = Ref(held.id)
    /\ InSync(res.jf)

\* C9: after p += xs the caller still holds the array, and after
\* parent[key] += xs the tree still has an array at key.
C9_InPlaceAdd ==
    /\ (res.op = "iadd" /\ res.ok) => Tracked
    /\ (res.op = "itemiadd" /\ res.ok /\ Tracked /\ Find(heap[held.id], res.key) # 0) =>
          LET slot == heap[held.id].c[Find(heap[held.id], res.key)].val
          IN  slot.t = "ref" /\ heap[slot.n].t = "arr"

\* C10: a handle made without data over a path with no file has the no-data
\* marker, not None, as its data; a handle whose data is None has None, not
\* the marker, after save() and load().
C10_NoDataVsNull ==
    [][/\ \A h \in Handles, as \in BOOLEAN :
             (Construct(h, Absent, as) /\ ~file[h].exists) =>
                 (made'[h] /\ data'[h] = Absent /\ data'[h] # Null)
       /\ (ops' # ops /\ res'.op = "load" /\ res.op = "save" /\ res.ok /\ res'.jf = res.jf
              /\ data[res.jf] = Null)
             => (res'.ok /\ data'[res.jf] = Null /\ data'[res.jf] # Absent)]_vars

C10_Witness ==
    /\ res.op = "load" /\ res.ok /\ res.prev.op = "save"
    /\ data[res.jf] = Null
    /\ file[res.jf] = FileOf(<<TNull>>)

\* C11: load() on a path with no file, or with a file of zero length,
\* returns, leaves the no-data marker as the data and creates no file.
C11_LoadWithoutFile ==
    [][(ops' # ops /\ res'.op = "load"
           /\ (~file[res'.jf].exists \/ file[res'.jf].text = <<>>))
          => (res'.ok /\ data'[res'.jf] = Absent /\ file' = file)]_vars

\* C13: delete() returns whether or not the file is there; afterwards the
\* file is absent and the data and the configuration are what they were.
C13_Delete ==
    [][(ops' # ops /\ res'.op = "delete")
          => (res'.ok /\ ~file'[res'.jf].exists
                /\ heap' = heap /\ data' = data /\ autosave' = autosave)]_vars

\* C14: a load() that raises, on a malformed text or on a file it cannot
\* read, leaves the tree exactly as it was.
C14_LoadFailure ==
    [][(ops' # ops /\ res'.op = "load" /\ ~res'.ok)
          => (heap' = heap /\ data' = data /\ file' = file)]_vars

C14_Witness ==
    /\ res.op = "load" /\ ~res.ok
    /\ file[res.jf].exists /\ ~Loads(file[res.jf].text).ok
    /\ data[res.jf].t = "ref"

\* C12: after g = h.copy(path) the tree of g equals the tree of h, and from
\* then on no call on one handle, or through its proxies, changes the tree
\* or the file of the other.
C12_CopyIndependent ==
    [][/\ \A h, g \in Handles :
             (ops' # ops /\ res'.op = "copy" /\ res'.ok /\ res'.jf = g /\ made[h] /\ ~made[g])
                => DeepEq(TreeAfter(g), Tree(h))
       /\ \A g \in Handles :
             (ops' # ops /\ made[g] /\ res'.jf # g)
                => (DeepEq(TreeAfter(g), Tree(g)) /\ file'[g] = file[g])]_vars

\* C15: a successful mutation through a held proxy is a mutation of the
\* root's tree: the container the proxy wraps is part of the tree root.data
\* reads, even when data was assigned or loaded after the proxy was made.
C15_LiveProxies ==
    [][(ops' # ops /\ res'.op \in MutatingOps /\ res'.ok /\ Tracked)
          => (data[held.jf].t = "ref" /\ held.id \in Reach(heap, {data[held.jf].n}))]_vars

\* C16: the file of a handle whose autosave is off changes only in a save()
\* or a delete() on that handle; the constructor, data assignment, the
\* proxies' mutations and the end of the handle leave it as it is.
C16_NoAutosaveNoWrite ==
    [][\A h \in Handles :
          (file'[h] # file[h] /\ (IF made[h] THEN ~autosave[h] ELSE ~autosave'[h]))
             => (ops' # ops /\ res'.jf = h /\ res'.op \in {"save", "delete"})]_vars

C16_Witness ==
    /\ res.op = "clear" /\ res.ok /\ ~res.wrote
    /\ ~autosave[res.jf]
    /\ file[res.jf].exists /\ Loads(file[res.jf].text).ok
    /\ ~DeepEq(Loads(file[res.jf].text).val, Tree(res.jf))

\* C17: after a load() that returns, the data is what the text of the file
\* parses to, or the no-data marker when the file is empty, whatever the
\* root held before and whether or not it had been saved.
C17_LoadAuthoritative ==
    [][(ops' # ops /\ res'.op = "load" /\ res'.ok) =>
          LET h == res'.jf
          IN  /\ file[h].exists
              /\ IF file[h].text # <<>>
                 THEN Loads(file[h].text).ok
                         /\ DeepEq(TreeAfter(h), Loads(file[h].text).val)
                 ELSE data'[h] = Absent]_vars

C17_Witness ==
    /\ res.op = "load" /\ res.ok /\ res.prev.op = "append"
    /\ ~autosave[res.jf]
    /\ file[res.jf].text # <<>>
    /\ DeepEq(Tree(res.jf), Loads(file[res.jf].text).val)

\* C18: when the save() that autosave runs at the end of a data assignment
\* or of a proxy's mutating call fails, in json.dumps or at any I/O step,
\* the call raises and the file holds what it held before the call; a call
\* that returns has put the new text there.
C18_AutosaveFailure ==
    \A h \in {First} :
        (pc.at = "idle" /\ pc.call # "save" /\ res.op = pc.call /\ res.jf = h) =>
            IF res.ok
            THEN file[h] = FileOf(SaveText(h))
            ELSE file[h] = pc.old

C18_Witness ==
    /\ pc.at = "idle" /\ pc.call = "append" /\ res.op = "append" /\ ~res.ok
    /\ Dumpable(Tree(First)) /\ tmp = FileOf(SaveText(First))
    /\ file[First].exists /\ file[First] = pc.old /\ file[First] # tmp

\* the cells of the trees the made roots own
TreeCells(hp, d) == Reach(hp, {d[h].n : h \in {g \in Handles : d[g].t = "ref"}})

\* C19: what a proxy's copy() returns is structurally equal to the subtree
\* the proxy wraps and shares no container with any root's tree; a later
\* mutation of it, at any depth, changes no root's tree and writes no file.
C19_DetachedCopy ==
    [][/\ (ops' # ops /\ res'.op = "deepcopy" /\ res'.ok) =>
             /\ held'.jf = "detached"
             /\ DeepEq(Deref(heap', Ref(held'.id)), Deref(heap, Ref(held.id)))
             /\ Reach(heap', {held'.id}) \cap TreeCells(heap', data') = {}
             /\ \A h \in Handles : DeepEq(TreeAfter(h), Tree(h))
             /\ file' = file
       /\ (ops' # ops /\ res'.op \in {"rawappend", "rawsetitem"}) =>
             /\ \A h \in Handles : DeepEq(TreeAfter(h), Tree(h))
             /\ file' = file]_vars

C19_Witness ==
    /\ res.op = "rawappend" /\ res.prev.op = "deepcopy"
    /\ held.jf = "detached"
    /\ \E h \in Handles :
          /\ made[h] /\ autosave[h] /\ data[h].t = "ref" /\ InSync(h)
          /\ LET c == Deref(heap, Ref(held.id))
                 t == Tree(h)
             IN  /\ c.t = t.t /\ Len(c.c) = Len(t.c)
                 /\ \E i \in 1..Len(c.c) :
                       /\ IsContainer(c.c[i].val) /\ IsContainer(t.c[i].val)
                       /\ Len(c.c[i].val.c) = Len(t.c[i].val.c) + 1

\* C20: setdefault(key, default) on an object proxy returns the entry under
\* str(key) and changes nothing when there is one; otherwise it stores the
\* normalized default under str(key) and returns it.  On a tree with string
\* keys it does not raise (a failing autosave apart) and overwrites nothing.
C20_SetDefault ==
    [][\A key \in Keys, default \in {Obj(<< <<IntK(1), Num(2)>> >>)} :
          (SetDefault(key, default)
              /\ Canonical(Tree(held.jf))
              /\ (autosave[held.jf] => Dumpable(TreeAfter(held.jf)))) =>
              LET c  == heap[held.id].c
                  c2 == heap'[held'.id].c
                  k  == KeyStr(key)
              IN  /\ res'.ok
                  /\ IF DictHas(c, k)
                     THEN /\ res'.ret = Deref(heap, DictGet(c, k))
                          /\ Deref(heap', Ref(held'.id)) = Deref(heap, Ref(held.id))
                     ELSE /\ DictHas(c2, k)
                          /\ Deref(heap', DictGet(c2, k)) = InputValue(default)
                          /\ res'.ret = InputValue(default)]_vars

====
